---- MODULE Spec2Model ----
(***************************************************************************)
(* The e-commerce dashboard of dashboard.py as a state machine.           *)
(*                                                                         *)
(* One rendering pass is one execution of main(): Streamlit runs the      *)
(* script top to bottom, single-threaded, once when the page opens and    *)
(* once more after every interaction with the date control.  The state    *)
(* that survives a pass is the st.cache_data store of load_data() and the *)
(* session value of the date control; everything else is recomputed.      *)
(*                                                                         *)
(* A DataFrame is a sequence of rows (records); the pandas row label is   *)
(* the field idx.  A timestamp is an integer number of ticks, TicksPerDay *)
(* ticks to a calendar day.  A float is a record [nan, num, den]: the     *)
(* value num/den, or NaN.  Identifiers (order, customer, category, state, *)
(* payment type) are positive integers, ordered as pandas orders the      *)
(* strings they stand for.                                                 *)
(***************************************************************************)
EXTENDS Integers, Sequences, FiniteSets, TLC

\* ------------------------------------------------------------------ bounds
TicksPerDay == 2      \* ticks of the timestamp clock per calendar day
MaxRows     == 3      \* rows of a dataset (general and payment family)
NOrders     == 5      \* order identifiers 1..NOrders of the general family
NPay        == 3      \* payment types 1..NPay of the payment family
\* ------------------------------------------------------- program constants
TopN        == 5      \* nlargest(5) / nsmallest(5)
Decimals    == 2      \* f"{x:,.2f}" and round(2)

highlight_color == "#72BCD4"
base_color      == "#D3D3D3"

\* ------------------------------------------------------------- arithmetic
Max(S) == CHOOSE x \in S : \A y \in S : y <= x
Min(S) == CHOOSE x \in S : \A y \in S : x <= y

RECURSIVE Pow10(_)
Pow10(n) == IF n = 0 THEN 1 ELSE 10 * Pow10(n - 1)

RECURSIVE SumSeq(_)
SumSeq(s) == IF s = <<>> THEN 0 ELSE Head(s) + SumSeq(Tail(s))

\* floats
NaN         == [nan |-> TRUE, num |-> 0, den |-> 1]
Float(n, d) == [nan |-> FALSE, num |-> n, den |-> d]
\* x == y and x < y on floats: every comparison with NaN is False
FloatEq(x, y) == ~x.nan /\ ~y.nan /\ x.num * y.den = y.num * x.den
FloatLt(x, y) == ~x.nan /\ ~y.nan /\ x.num * y.den < y.num * x.den
\* The float x rounded to Decimals decimal places, as format(x, ',.2f') and
\* Series.round(2) do: the set of results.  A value exactly half way between
\* two neighbours goes to the one or the other with the binary representation
\* of the float (0.125 -> 0.12, 0.375 -> 0.38, and the float 0.015 is below
\* 0.015), which this model of floats does not carry: both are outcomes.
\* NaN stays NaN ("$nan").
Round2(x) ==
    IF x.nan THEN {NaN}
    ELSE LET unit == Pow10(Decimals)
             n    == x.num * unit
             q    == n \div x.den
             r    == n % x.den
         IN  IF 2 * r < x.den THEN {Float(q, unit)}
             ELSE IF 2 * r > x.den THEN {Float(q + 1, unit)}
             ELSE {Float(q, unit), Float(q + 1, unit)}

\* ------------------------------------------------------------ sequences
\* The elements of the set of integers S in ascending order.
SortedSeq(S) ==
    [p \in 1..Cardinality(S) |->
        CHOOSE x \in S : Cardinality({y \in S : y < x}) = p - 1]

\* The values of s in order of first appearance (a hash table's key order).
FirstSeen(s) ==
    LET firsts == {i \in DOMAIN s : \A j \in 1..(i - 1) : s[j] # s[i]}
        ord    == SortedSeq(firsts)
    IN  [p \in DOMAIN ord |-> s[ord[p]]]

\* s sorted by a strict weak order on its positions (before[i][j]: element i
\* goes before element j), elements that tie staying in the order they have
\* in s (a stable sort).
StableSort(s, before) ==
    LET pos == [i \in DOMAIN s |->
                   1 + Cardinality({j \in DOMAIN s :
                           \/ before[j][i]
                           \/ j < i /\ ~before[i][j]})]
    IN  [p \in DOMAIN s |-> s[CHOOSE i \in DOMAIN s : pos[i] = p]]

\* head(n)
Take(s, n) == SubSeq(s, 1, IF Len(s) < n THEN Len(s) ELSE n)

\* DataFrame.nsmallest(n, col) / nlargest(n, col), keep='first': the n rows
\* of s with the smallest (largest) value in the column col, in order of that
\* value, rows with equal values in the order they have in the frame.
nsmallest(n, s, col) ==
    Take(StableSort(s, [i \in DOMAIN s |-> [j \in DOMAIN s |-> col[i] < col[j]]]), n)
nlargest(n, s, col) ==
    Take(StableSort(s, [i \in DOMAIN s |-> [j \in DOMAIN s |-> col[i] > col[j]]]), n)
nlargestFloat(n, s, col) ==
    Take(StableSort(s, [i \in DOMAIN s |-> [j \in DOMAIN s |-> FloatLt(col[j], col[i])]]), n)

\* -------------------------------------------------------------- the file
\* all_dataset.csv.  A row of the file carries its purchase timestamp as
\* text, here the pair <<day, tick of the day>>.  An order determines its
\* payment value, product category, customer state and delivery time; order
\* identifiers repeat across rows and customers across orders.
PaymentOf(o)  == 1 + (o % 2)
CategoryOf(o) == 1 + (o % 3)
StateOf(o)    == 1 + (o % 2)
DeliveryOf(o) == o

CsvRow(o, c, day, tick, pt, status) ==
    [order_id                      |-> o,
     customer_id                   |-> c,
     order_purchase_timestamp      |-> <<day, tick>>,
     payment_value                 |-> PaymentOf(o),
     product_category_name_english |-> CategoryOf(o),
     customer_state                |-> StateOf(o),
     delivery_time                 |-> DeliveryOf(o),
     order_status                  |-> status,
     payment_type                  |-> pt]

\* The sequences of 1..n elements of S.
SeqsUpTo(S, n) == UNION {[1..k -> S] : k \in 1..n}

\* General family: orders 1..NOrders, placed one tick after the other by two
\* customers in turn; a dataset lists any of them in any order, an order
\* possibly on several rows.
GeneralRows ==
    {CsvRow(o, 1 + (o % 2), (o - 1) \div TicksPerDay, (o - 1) % TicksPerDay,
            1, "delivered") : o \in 1..NOrders}
GeneralData == SeqsUpTo(GeneralRows, MaxRows)

\* Payment family: rows of any payment type and order status; payment types
\* alternate between day 0 and day 1, so that a date range can leave a
\* payment type without rows.
PaymentRows ==
    {CsvRow(1, 1, (pt - 1) % 2, 0, pt, st) :
        pt \in 1..NPay, st \in {"delivered", "canceled"}}
PaymentData == SeqsUpTo(PaymentRows, MaxRows)

\* Customer family: up to one customer more than a top-N table has rows.
\* Customers 1..k each place a first order on day 0, listed in any order; the
\* customer listed first may place a second order the day after.
NCustRFM == TopN + 1
FirstOrders ==
    {s \in SeqsUpTo(1..NCustRFM, NCustRFM) : \A c \in 1..Len(s) : \E i \in DOMAIN s : s[i] = c}
SecondOrder(s) ==
    {<<>>, <<CsvRow(2 * s[1], s[1], 1, 0, 1, "delivered")>>}
CustomerData ==
    UNION {{[i \in DOMAIN s |-> CsvRow(2 * s[i] - 1, s[i], 0, 0, 1, "delivered")] \o b :
               b \in SecondOrder(s)} : s \in FirstOrders}

\* The file as the process finds it: readable with a non-empty table, absent,
\* or present but not readable by the process.
Files(data) ==
    {[status |-> "ok", rows |-> rows] : rows \in data}
        \cup {[status |-> st, rows |-> <<>>] : st \in {"missing", "unreadable"}}

\* ----------------------------------------------------------- the loader
\* pd.to_datetime on one cell
to_datetime(text) == text[1] * TicksPerDay + text[2]

\* pd.read_csv: the exception it raises, or "none"
read_error(f) ==
    CASE f.status = "missing"    -> "FileNotFoundError"
      [] f.status = "unreadable" -> "PermissionError"
      [] OTHER                   -> "none"

\* pd.read_csv of a readable file: the rows under a RangeIndex
read_csv(f) ==
    [i \in DOMAIN f.rows |->
        [idx                           |-> i - 1,
         order_id                      |-> f.rows[i].order_id,
         customer_id                   |-> f.rows[i].customer_id,
         order_purchase_timestamp      |-> f.rows[i].order_purchase_timestamp,
         payment_value                 |-> f.rows[i].payment_value,
         product_category_name_english |-> f.rows[i].product_category_name_english,
         customer_state                |-> f.rows[i].customer_state,
         delivery_time                 |-> f.rows[i].delivery_time,
         order_status                  |-> f.rows[i].order_status,
         payment_type                  |-> f.rows[i].payment_type]]

\* the body of load_data()
load_data(f) ==
    LET df == read_csv(f)
    IN  [i \in DOMAIN df |->
            [df[i] EXCEPT !.order_purchase_timestamp = to_datetime(@)]]

\* load_data() without its decorator: nothing is ever stored
cache_data_off(store, df) == <<>>

\* @st.cache_data: the store after a call of load_data() that returned df.
\* The store is empty (<<>>) or holds the one entry of the argument-less call.
cache_data(store, df) == IF store = <<>> THEN <<df>> ELSE store

\* main() without its try/except
Caught_nothing(exc) == FALSE

\* except FileNotFoundError
Caught(exc) == exc = "FileNotFoundError"


\* ------------------------------------------------------- the date filter
\* Series.dt.date, and Timestamp.date()
DateOf(ts) == ts \div TicksPerDay
\* Series.dt.days of a difference of timestamps: whole days, rounded down
Days(td) == td \div TicksPerDay

Timestamps(df) == {df[i].order_purchase_timestamp : i \in DOMAIN df}

\* value=(min(), min()): the default range ends where it starts
DefaultRange_min_only(all_df) ==
    <<DateOf(Min({all_df[i].order_purchase_timestamp : i \in DOMAIN all_df})),
      DateOf(Min({all_df[i].order_purchase_timestamp : i \in DOMAIN all_df}))>>

\* value=(min(), max()) of st.sidebar.date_input: the control shows dates
DefaultRange(all_df) ==
    <<DateOf(Min(Timestamps(all_df))), DateOf(Max(Timestamps(all_df)))>>

\* min_value and max_value of st.sidebar.date_input
DateBounds(all_df) ==
    <<DateOf(Min(Timestamps(all_df))), DateOf(Max(Timestamps(all_df)))>>

\* What the operator can set a control with these bounds to: a range of dates
\* inside min_value..max_value, or its first date alone while the second one
\* is not picked yet (the control then returns a 1-tuple).
DateChoices(bounds) ==
    LET days == bounds[1]..bounds[2]
    IN  {r \in days \X days : r[1] <= r[2]} \cup {<<a>> : a \in days}

\* st.sidebar.date_input: the session value of the control, the default
\* while the operator has not touched it (session value <<>>)
date_input(all_df, w) == IF w = <<>> THEN DefaultRange(all_df) ELSE w

\* mask with < for the upper bound
mask_strict_upper(row, date_range) ==
    /\ DateOf(row.order_purchase_timestamp) >= date_range[1]
    /\ DateOf(row.order_purchase_timestamp) < date_range[2]

\* mask with the two comparisons exchanged
mask_swapped(row, date_range) ==
    /\ DateOf(row.order_purchase_timestamp) <= date_range[1]
    /\ DateOf(row.order_purchase_timestamp) >= date_range[2]

\* mask, for one row
mask(row, date_range) ==
    /\ DateOf(row.order_purchase_timestamp) >= date_range[1]
    /\ DateOf(row.order_purchase_timestamp) <= date_range[2]

\* all_df[mask]: the rows keep their order and their labels
filtered(all_df, date_range) ==
    SelectSeq(all_df, LAMBDA row : mask(row, date_range))

\* ------------------------------------------------------------- metrics
total_orders(df)     == Cardinality({df[i].order_id : i \in DOMAIN df})
unique_customers(df) == Cardinality({df[i].customer_id : i \in DOMAIN df})
\* Series.sum(): 0 for no rows
payment_sum(df) == SumSeq([i \in DOMAIN df |-> df[i].payment_value])
\* Series.mean(): NaN for no rows
payment_mean(df) ==
    IF Len(df) = 0 THEN NaN ELSE Float(payment_sum(df), Len(df))

\* The four st.metric values: the sets of what the two formats can show.
Metrics(df) ==
    {[total_orders        |-> total_orders(df),
      total_revenue       |-> rev,
      unique_customers    |-> unique_customers(df),
      average_order_value |-> aov] :
        rev \in Round2(Float(payment_sum(df), 1)),
        aov \in Round2(payment_mean(df))}

\* ---------------------------------------------------------------- tab 1
\* Series.value_counts(): one entry per value, largest count first, values
\* with the same count in order of first appearance
value_counts(col) ==
    LET keys   == FirstSeen(col)
        counts == [p \in DOMAIN keys |->
                     [label |-> keys[p],
                      value |-> Cardinality({i \in DOMAIN col : col[i] = keys[p]})]]
    IN  StableSort(counts, [i \in DOMAIN counts |-> [j \in DOMAIN counts |->
                               counts[i].value > counts[j].value]])

top_categories(df) ==
    LET counts == value_counts([i \in DOMAIN df |-> df[i].product_category_name_english])
    IN  nlargest(TopN, counts, [i \in DOMAIN counts |-> counts[i].value])

\* [highlight_color if i == 0 else base_color for i in range(len(series))]
colors_first(series) ==
    [i \in DOMAIN series |-> IF i = 1 THEN highlight_color ELSE base_color]

\* ---------------------------------------------------------------- tab 2
\* groupby('customer_state')['delivery_time'].mean(): states in ascending order
delivery_mean(df) ==
    LET keys == SortedSeq({df[i].customer_state : i \in DOMAIN df})
    IN  [p \in DOMAIN keys |->
            LET rows == SelectSeq(df, LAMBDA r : r.customer_state = keys[p])
            IN  [label |-> keys[p],
                 value |-> Float(SumSeq([i \in DOMAIN rows |-> rows[i].delivery_time]),
                                 Len(rows))]]

avg_delivery_time(df) ==
    LET means == delivery_mean(df)
    IN  nlargestFloat(TopN, means, [i \in DOMAIN means |-> means[i].value])

\* ---------------------------------------------------------------- tab 3
\* groupby('payment_type').size(): payment types that have rows, ascending
group_size(df) ==
    LET keys == SortedSeq({df[i].payment_type : i \in DOMAIN df})
    IN  [p \in DOMAIN keys |->
            [label |-> keys[p],
             value |-> Cardinality({i \in DOMAIN df : df[i].payment_type = keys[p]})]]

Labels(series) == {series[i].label : i \in DOMAIN series}
At(series, k)  == (CHOOSE e \in {series[i] : i \in DOMAIN series} : e.label = k).value

\* a / b * 100 of two Series: the labels of both, ascending; NaN at a label
\* that one of them lacks
rate_percent(a, b) ==
    LET keys == SortedSeq(Labels(a) \cup Labels(b))
    IN  [p \in DOMAIN keys |->
            [label |-> keys[p],
             value |-> IF keys[p] \in Labels(a) /\ keys[p] \in Labels(b)
                       THEN Float(At(a, keys[p]) * 100, At(b, keys[p]))
                       ELSE NaN]]

cancellation_rate(df) ==
    rate_percent(group_size(SelectSeq(df, LAMBDA r : r.order_status = "canceled")),
                 group_size(df))

\* Series.max(): NaN entries are skipped; NaN when nothing is left
series_max(series) ==
    LET vals == {series[i].value : i \in DOMAIN series} \ {NaN}
    IN  IF vals = {} THEN NaN
        ELSE CHOOSE m \in vals : \A v \in vals : ~FloatLt(m, v)

\* the colours of tab 3 computed as those of tabs 1 and 2 are
colors_tab3_first_only(series) ==
    [i \in DOMAIN series |-> IF i = 1 THEN highlight_color ELSE base_color]

\* [highlight_color if val == max_value else base_color for val in values]
colors_tab3(series) ==
    LET max_value == series_max(series)
    IN  [i \in DOMAIN series |->
            IF FloatEq(series[i].value, max_value)
            THEN highlight_color ELSE base_color]


\* ------------------------------------------------------------------ RFM
\* groupby(by="customer_id", sort=False): keys in order of first appearance
group_keys_first_seen(df) == FirstSeen([i \in DOMAIN df |-> df[i].customer_id])

\* the group keys of groupby(by="customer_id"): ascending (sort=True)
group_keys(df) == SortedSeq({df[i].customer_id : i \in DOMAIN df})

\* the anchor taken as the earliest purchase, .min()
recent_date_min(df) == Min({df[i].order_purchase_timestamp : i \in DOMAIN df})

\* filtered_df["order_purchase_timestamp"].max(), of a frame that has rows
recent_date(df) == Max(Timestamps(df))

\* rfm_df with its recency column; no rows for a frame without rows (the
\* anchor is then NaT and is subtracted from nothing)
rfm_df(df) ==
    LET keys == group_keys(df)
    IN  [p \in DOMAIN keys |->
            LET rows == SelectSeq(df, LAMBDA r : r.customer_id = keys[p])
                last == Max(Timestamps(rows))
            IN  [customer_id         |-> keys[p],
                 max_order_timestamp |-> last,
                 frequency           |-> total_orders(rows),
                 monetary            |-> Float(payment_sum(rows), 1),
                 recency             |-> Days(recent_date(df) - last)]]

\* [['customer_id', col]] of the three tables
recency_df(rfm) ==
    LET top == nsmallest(TopN, rfm, [i \in DOMAIN rfm |-> rfm[i].recency])
    IN  [i \in DOMAIN top |->
            [customer_id |-> top[i].customer_id, recency |-> top[i].recency]]

frequency_df(rfm) ==
    LET top == nlargest(TopN, rfm, [i \in DOMAIN rfm |-> rfm[i].frequency])
    IN  [i \in DOMAIN top |->
            [customer_id |-> top[i].customer_id, frequency |-> top[i].frequency]]

\* The sequences that take their i-th element from the i-th set of sets.
RECURSIVE Choices(_)
Choices(sets) ==
    IF sets = <<>> THEN {<<>>}
    ELSE {<<h>> \o t : h \in Head(sets), t \in Choices(Tail(sets))}

\* the monetary table after round(2): the set of what it can hold
monetary_df(rfm) ==
    LET top == nlargestFloat(TopN, rfm, [i \in DOMAIN rfm |-> rfm[i].monetary])
    IN  Choices([i \in DOMAIN top |->
            {[customer_id |-> top[i].customer_id, monetary |-> m] :
                m \in Round2(top[i].monetary)}])

\* ------------------------------------------------------------- the page
\* What main() puts on the page, in the order it does.
OnFailure == {"title", "error"}
Sidebar   == {"title", "success", "filters", "logo", "date_input"}
Dashboard ==
    {"metric_total_orders", "metric_total_revenue", "metric_unique_customers",
     "metric_average_order_value",
     "bar_categories", "bar_delivery", "bar_payment",
     "table_recency", "table_frequency", "table_monetary",
     "hist_recency", "hist_frequency", "hist_monetary"}

\* Everything a pass that reaches its end has computed from all_df and the
\* value of the date control: the set of outcomes.
Views(all_df, date_range) ==
    LET df   == filtered(all_df, date_range)
        cat  == top_categories(df)
        dlv  == avg_delivery_time(df)
        rate == cancellation_rate(df)
        rfm  == rfm_df(df)
    IN  {[date_range        |-> date_range,
          filtered_df       |-> df,
          metrics           |-> m,
          top_categories    |-> cat,
          colors_tab1       |-> colors_first(cat),
          avg_delivery_time |-> dlv,
          colors_tab2       |-> colors_first(dlv),
          cancellation_rate |-> rate,
          colors_tab3       |-> colors_tab3(rate),
          rfm_df            |-> rfm,
          recency_df        |-> recency_df(rfm),
          frequency_df      |-> frequency_df(rfm),
          monetary_df       |-> mon] :
            m \in Metrics(df), mon \in monetary_df(rfm)}

\* ------------------------------------------------------------- the state
VARIABLES
    file,       \* all_dataset.csv as the process finds it
    cache,      \* the st.cache_data store: <<>> or <<the loaded DataFrame>>
    loads,      \* how often the body of load_data() has run to its end
    widget,     \* session value of the date control: <<>> while untouched
    rendered,   \* what the latest pass put on the page
    control,    \* <<min_value, max_value>> of the date control on the page, or <<>>
    page,       \* what the latest pass computed: <<>> or <<a view>>
    raised      \* the exception the latest pass ended with, or "none"

vars == <<file, cache, loads, widget, rendered, control, page, raised>>

InitSession ==
    /\ cache = <<>>
    /\ loads = 0
    /\ widget = <<>>
    /\ rendered = {}
    /\ control = <<>>
    /\ page = <<>>
    /\ raised = "none"

Init         == file \in Files(GeneralData) /\ InitSession
InitPayment  == file \in Files(PaymentData) /\ InitSession
InitCustomer == file \in Files(CustomerData) /\ InitSession

\* main() with the date control at session value w.
main(w) ==
    LET hit == cache # <<>>
        exc == IF hit THEN "none" ELSE read_error(file)
    IN  /\ widget' = w
        /\ UNCHANGED file
        /\ IF exc # "none"
           THEN \* load_data() raised: nothing is stored
                /\ UNCHANGED <<cache, loads>>
                /\ control' = <<>>
                /\ page' = <<>>
                /\ IF Caught(exc)
                   THEN rendered' = OnFailure /\ raised' = "none"
                   ELSE rendered' = {"title"} /\ raised' = exc
           ELSE LET all_df     == IF hit THEN cache[1] ELSE load_data(file)
                    date_range == date_input(all_df, w)
                IN  /\ cache' = cache_data(cache, all_df)
                    /\ loads' = IF hit THEN loads ELSE loads + 1
                    /\ control' = DateBounds(all_df)
                    /\ IF Len(date_range) < 2
                       THEN \* date_range[1]: IndexError
                            /\ rendered' = Sidebar
                            /\ page' = <<>>
                            /\ raised' = "IndexError"
                       ELSE /\ rendered' = Sidebar \cup Dashboard
                            /\ page' \in {<<v>> : v \in Views(all_df, date_range)}
                            /\ raised' = "none"

\* The script runs with the control as it is: the page is opened, or rerun.
Run == main(widget)

\* The operator sets the date control, which is on the page; the script reruns.
SelectDates ==
    /\ control # <<>>
    /\ \E w \in DateChoices(control) : main(w)

Next == Run \/ SelectDates

Spec         == Init /\ [][Next]_vars
SpecPayment  == InitPayment /\ [][Next]_vars
SpecCustomer == InitCustomer /\ [][Next]_vars


\* ------------------------------------------------------------ properties
\* The latest pass ran to the end of main().
Complete == rendered = Sidebar \cup Dashboard

\* The calendar day of row i of the loaded table, as written in the file.
FileDay(i) == file.rows[i].order_purchase_timestamp[1]

\* The labels of the rows of a frame.
Idx(df) == {df[j].idx : j \in DOMAIN df}

IsZero(x) == FloatEq(x, Float(0, 1))

\* C1: after a pass that ran to its end with the date control at (min, max),
\* the filtered subset holds exactly the loaded rows whose purchase day d, as
\* the file states it, satisfies min <= d <= max, each once, unchanged and in
\* the order of the file.
C1_FilterKeepsExactlyTheRange ==
    Complete =>
        LET v    == page[1]
            df   == v.filtered_df
            all  == cache[1]
            keep == {i \in DOMAIN all :
                        v.date_range[1] <= FileDay(i) /\ FileDay(i) <= v.date_range[2]}
        IN  /\ Idx(df) = {i - 1 : i \in keep}
            /\ Len(df) = Cardinality(keep)
            /\ \A j \in DOMAIN df : df[j] = all[df[j].idx + 1]
            /\ \A j, k \in DOMAIN df : j < k => df[j].idx < df[k].idx

\* a range that keeps a row dated its first day, a row dated its last day
\* (another day), and leaves a row out
C1_Witness ==
    /\ Complete
    /\ page[1].date_range[1] < page[1].date_range[2]
    /\ \E i, j, k \in DOMAIN cache[1] :
          /\ FileDay(i) = page[1].date_range[1]
          /\ FileDay(j) = page[1].date_range[2]
          /\ FileDay(k) > page[1].date_range[2]
          /\ {i - 1, j - 1} \subseteq Idx(page[1].filtered_df)
          /\ (k - 1) \notin Idx(page[1].filtered_df)

\* C2 (as stated): a pass whose filtered subset has no rows ends without an
\* exception, shows 0 / $0.00 for the four metrics, and all charts and tables
\* have no rows.
C2_EmptySubsetShowsZeros ==
    (page # <<>> /\ page[1].filtered_df = <<>>) =>
        LET v == page[1]
        IN  /\ raised = "none"
            /\ Dashboard \subseteq rendered
            /\ v.metrics.total_orders = 0
            /\ IsZero(v.metrics.total_revenue)
            /\ v.metrics.unique_customers = 0
            /\ IsZero(v.metrics.average_order_value)
            /\ v.top_categories = <<>>
            /\ v.avg_delivery_time = <<>>
            /\ v.cancellation_rate = <<>>
            /\ v.rfm_df = <<>>
            /\ v.recency_df = <<>> /\ v.frequency_df = <<>> /\ v.monetary_df = <<>>

\* What the page shows after a pass in which load_data() failed cleanly: the
\* error message and nothing of the dashboard.
HaltedWithMessage ==
    /\ "error" \in rendered
    /\ raised = "none"
    /\ rendered \cap (Dashboard \cup {"success", "logo", "date_input"}) = {}
    /\ page = <<>>
    /\ control = <<>>

\* C3 (as stated): whenever a pass has run on a missing or unreadable file,
\* the page shows the error message, main() raised nothing and none of the
\* filter, metrics, charts, tables and histograms is rendered.
C3_MissingOrUnreadableHalts ==
    (file.status \in {"missing", "unreadable"} /\ rendered # {}) => HaltedWithMessage

\* C3 (amended): whenever a pass has run on a missing file, the page shows the
\* error message, main() raised nothing and none of the filter, metrics,
\* charts, tables and histograms is rendered.
C3_MissingHalts ==
    (file.status = "missing" /\ rendered # {}) => HaltedWithMessage

C3_Witness == file.status = "missing" /\ rendered = OnFailure

\* the customers of the RFM frame with recency 0
ZeroRecency(rfm) == {rfm[i].customer_id : i \in {j \in DOMAIN rfm : rfm[j].recency = 0}}

\* C4 (as stated): after a pass over a non-empty filtered subset every
\* recency is >= 0 and exactly one customer has recency 0.
C4_ExactlyOneZeroRecency ==
    (Complete /\ page[1].filtered_df # <<>>) =>
        /\ \A i \in DOMAIN page[1].rfm_df : page[1].rfm_df[i].recency >= 0
        /\ Cardinality(ZeroRecency(page[1].rfm_df)) = 1

\* C4 (amended): after a pass over a non-empty filtered subset every recency
\* is >= 0 and at least one customer has recency 0: every customer with a row
\* that carries the latest timestamp of the filtered subset has.
C4_RecencyNonNegativeSomeZero ==
    (Complete /\ page[1].filtered_df # <<>>) =>
        LET df  == page[1].filtered_df
            rfm == page[1].rfm_df
        IN  /\ \A i \in DOMAIN rfm : rfm[i].recency >= 0
            /\ ZeroRecency(rfm) # {}
            /\ \A j \in DOMAIN df :
                  (\A k \in DOMAIN df : df[k].order_purchase_timestamp
                                            <= df[j].order_purchase_timestamp)
                      => df[j].customer_id \in ZeroRecency(rfm)

\* two customers with recency 0
C4_Witness ==
    /\ Complete
    /\ Cardinality(ZeroRecency(page[1].rfm_df)) >= 2


\* The rows of payment type pt in a frame, and those of them canceled.
RowsOf(df, pt)     == {j \in DOMAIN df : df[j].payment_type = pt}
CanceledOf(df, pt) == {j \in RowsOf(df, pt) : df[j].order_status = "canceled"}

\* C5 (as stated): every payment type with a row in the filtered subset has
\* a bar of value (its canceled rows) / (its rows) x 100, which is 0 when none
\* of its rows is canceled, and no bar is NaN.
C5_RateForEveryPaymentType ==
    Complete =>
        LET df   == page[1].filtered_df
            rate == page[1].cancellation_rate
        IN  /\ \A pt \in {df[j].payment_type : j \in DOMAIN df} :
                  \E i \in DOMAIN rate :
                      /\ rate[i].label = pt
                      /\ FloatEq(rate[i].value,
                                 Float(Cardinality(CanceledOf(df, pt)) * 100,
                                       Cardinality(RowsOf(df, pt))))
            /\ \A i \in DOMAIN rate : ~rate[i].value.nan

\* C7: the body of load_data() runs at most once in a session: the store is
\* filled by the one run, holds the table of the file with its timestamps
\* parsed, and every pass that reaches the dashboard computes it from the
\* stored table and the value of the date control.
C7_LoadedAtMostOnce ==
    /\ loads <= 1
    /\ (cache # <<>>) <=> (loads = 1)
    /\ cache # <<>> =>
          /\ Len(cache[1]) = Len(file.rows)
          /\ \A i \in DOMAIN cache[1] :
                /\ cache[1][i].order_id = file.rows[i].order_id
                /\ DateOf(cache[1][i].order_purchase_timestamp) = FileDay(i)
    /\ Complete =>
          /\ cache # <<>>
          /\ page[1].date_range = date_input(cache[1], widget)
          /\ Idx(page[1].filtered_df) \subseteq Idx(cache[1])

\* a pass after the first one (the operator has set the control), served
\* from the store
C7_Witness ==
    /\ Complete
    /\ widget # <<>>
    /\ loads = 1

\* C6: with the date control untouched, a pass that runs to its end filters
\* nothing out: the filtered subset is the loaded table, every row of the file.
C6_DefaultRangeShowsAll ==
    (Complete /\ widget = <<>>) =>
        /\ page[1].filtered_df = cache[1]
        /\ Len(page[1].filtered_df) = Len(file.rows)

\* the default range over a file whose rows span several days
C6_Witness ==
    /\ Complete
    /\ widget = <<>>
    /\ \E i, j \in DOMAIN file.rows : FileDay(i) + 1 < FileDay(j)
    /\ Len(page[1].filtered_df) = MaxRows

\* r1 is inside r2
Within(r1, r2) == r2[1] <= r1[1] /\ r1[2] <= r2[2]

\* C8: when a pass over a range is followed by a pass over a range that
\* contains it, Total Orders and Unique Customers do not decrease.
C8_WideningNeverDecreases ==
    [][(Complete /\ Complete' /\ Within(page[1].date_range, page'[1].date_range)) =>
          /\ page'[1].metrics.total_orders >= page[1].metrics.total_orders
          /\ page'[1].metrics.unique_customers >= page[1].metrics.unique_customers]_vars

\* a range with orders of two customers on its page, of which a narrower
\* range shows fewer orders and fewer customers
C8_Witness ==
    /\ Complete
    /\ widget # <<>>
    /\ page[1].metrics.unique_customers >= 2
    /\ \E r \in DateChoices(control) :
          /\ Len(r) = 2
          /\ Within(r, page[1].date_range)
          /\ total_orders(filtered(cache[1], r)) < page[1].metrics.total_orders
          /\ unique_customers(filtered(cache[1], r)) < page[1].metrics.unique_customers
          /\ total_orders(filtered(cache[1], r)) > 0

\* The entries of a Series that are drawn as bars: those with a value.
Bars(series) == {i \in DOMAIN series : ~series[i].value.nan}

\* C10: in the payment view a bar has the highlight colour exactly if no bar
\* has a larger rate, so all bars that tie at the maximum are highlighted;
\* every other entry has the neutral colour; and when there is a bar, a bar
\* is highlighted.
C10_HighlightExactlyTheMaxima ==
    Complete =>
        LET rate   == page[1].cancellation_rate
            colors == page[1].colors_tab3
        IN  /\ DOMAIN colors = DOMAIN rate
            /\ \A i \in DOMAIN rate :
                  /\ colors[i] \in {highlight_color, base_color}
                  /\ colors[i] = highlight_color <=>
                        /\ i \in Bars(rate)
                        /\ \A j \in Bars(rate) :
                              rate[j].value.num * rate[i].value.den
                                  <= rate[i].value.num * rate[j].value.den
            /\ Bars(rate) # {} => \E i \in Bars(rate) : colors[i] = highlight_color

\* two bars tie at the maximum, the first entry is not among them
C10_Witness ==
    /\ Complete
    /\ Cardinality({i \in DOMAIN page[1].colors_tab3 :
                       page[1].colors_tab3[i] = highlight_color}) >= 2
    /\ page[1].colors_tab3[1] = base_color


\* The customers of a ranked table, and the place of one of them in it.
Ranked(table)   == {table[i].customer_id : i \in DOMAIN table}
Place(table, c) == CHOOSE i \in DOMAIN table : table[i].customer_id = c

\* The first row of customer c in a frame.
FirstRow(df, c) == Min({j \in DOMAIN df : df[j].customer_id = c})

\* The pairs <<a, b>> of entries of the RFM frame for two customers that tie
\* on a ranked value.
TiedOnRecency(rfm) ==
    {p \in (DOMAIN rfm) \X (DOMAIN rfm) : p[1] # p[2] /\ rfm[p[1]].recency = rfm[p[2]].recency}
TiedOnFrequency(rfm) ==
    {p \in (DOMAIN rfm) \X (DOMAIN rfm) : p[1] # p[2] /\ rfm[p[1]].frequency = rfm[p[2]].frequency}
TiedOnMonetary(rfm) ==
    {p \in (DOMAIN rfm) \X (DOMAIN rfm) : p[1] # p[2] /\ FloatEq(rfm[p[1]].monetary, rfm[p[2]].monetary)}

\* In a table, customer a goes before customer b: if b is in the table, so is
\* a, and higher up.
GoesBefore(table, a, b) ==
    b \in Ranked(table) => (a \in Ranked(table) /\ Place(table, a) < Place(table, b))

\* C9 (as stated): in each of the three top-5 tables, of two customers that
\* tie on the ranked value the one whose first row comes earlier in the
\* filtered subset goes first and takes the last place of the table.
C9_TiesByFirstAppearance ==
    Complete =>
        LET v      == page[1]
            rfm    == v.rfm_df
            df     == v.filtered_df
            first(p) == FirstRow(df, rfm[p[1]].customer_id)
                            < FirstRow(df, rfm[p[2]].customer_id)
        IN  /\ \A p \in TiedOnRecency(rfm) : first(p) =>
                  GoesBefore(v.recency_df, rfm[p[1]].customer_id, rfm[p[2]].customer_id)
            /\ \A p \in TiedOnFrequency(rfm) : first(p) =>
                  GoesBefore(v.frequency_df, rfm[p[1]].customer_id, rfm[p[2]].customer_id)
            /\ \A p \in TiedOnMonetary(rfm) : first(p) =>
                  GoesBefore(v.monetary_df, rfm[p[1]].customer_id, rfm[p[2]].customer_id)

\* C9 (amended): in each of the three top-5 tables, of two customers that tie
\* on the ranked value the one with the smaller customer identifier goes first
\* and takes the last place of the table, whatever the order of the rows.
C9_TiesByCustomerId ==
    Complete =>
        LET v      == page[1]
            rfm    == v.rfm_df
            less(p) == rfm[p[1]].customer_id < rfm[p[2]].customer_id
        IN  /\ \A p \in TiedOnRecency(rfm) : less(p) =>
                  GoesBefore(v.recency_df, rfm[p[1]].customer_id, rfm[p[2]].customer_id)
            /\ \A p \in TiedOnFrequency(rfm) : less(p) =>
                  GoesBefore(v.frequency_df, rfm[p[1]].customer_id, rfm[p[2]].customer_id)
            /\ \A p \in TiedOnMonetary(rfm) : less(p) =>
                  GoesBefore(v.monetary_df, rfm[p[1]].customer_id, rfm[p[2]].customer_id)

\* more customers than places, and a tie across the last place of the recency
\* table between two customers of which the one left out appears first
C9_Witness ==
    /\ Complete
    /\ Len(page[1].rfm_df) > TopN
    /\ \E p \in TiedOnRecency(page[1].rfm_df) :
          LET a == page[1].rfm_df[p[1]].customer_id
              b == page[1].rfm_df[p[2]].customer_id
          IN  /\ a \in Ranked(page[1].recency_df)
              /\ b \notin Ranked(page[1].recency_df)
              /\ FirstRow(page[1].filtered_df, b) < FirstRow(page[1].filtered_df, a)
    /\ \E i \in DOMAIN page[1].rfm_df : page[1].rfm_df[i].recency > 0

====
